---- MODULE Spec2Model ----
(***************************************************************************)
(* Streaming-report ingestion and progress state machine of the            *)
(* longevity-protocol-validator front end:                                 *)
(*   ReportService.generateReport  (fetch + read loop + frame parser)      *)
(*   StateService                  (signals, ResearchProgress)             *)
(*   ReportPageComponent           (event handlers, new report, follow-up) *)
(*   PaperService.researchStream   (EventSource listeners)                 *)
(*                                                                         *)
(* Text is a sequence of atoms.  An atom is a lexeme of the wire text (a   *)
(* keyword such as "event: ", a word, one newline, a fragment of a JSON    *)
(* payload) or one byte of a multi-byte character; the real text is the    *)
(* concatenation of the atoms.  A chunk boundary can fall between any two  *)
(* atoms: between the two newlines of a delimiter, inside a JSON payload,  *)
(* inside a multi-byte character.  In the wire texts of this model a word  *)
(* atom is always a maximal run of word characters.                        *)
(***************************************************************************)
EXTENDS Integers, Sequences, FiniteSets, TLC

\* ---------------------------------------------------------------- bounds
MaxRuns == 2
MaxPieces == 3

\* Follow-up questions asked on the page in one behaviour.
MaxFollowUps == 2

\* ------------------------------------------------------- JavaScript values
Null == "<null>"
Undefined == "<undefined>"
NullObj == [isNull |-> TRUE]

Get(obj, f) == IF f \in DOMAIN obj THEN obj[f] ELSE Undefined

Truthy(s) == s \notin {Null, Undefined, ""}

OrElse(a, b) == IF Truthy(a) THEN a ELSE b

\* ------------------------------------------------------- progress.model.ts
PROGRESS_STEPS_CONFIG ==
  << [id |-> "optimizing", label |-> "Optimizing search queries", order |-> 1],
     [id |-> "searching_pubmed", label |-> "Searching PubMed", order |-> 2],
     [id |-> "searching_openalex", label |-> "Searching OpenAlex", order |-> 3],
     [id |-> "searching_europepmc", label |-> "Searching Europe PMC", order |-> 4],
     [id |-> "searching_crossref", label |-> "Searching CrossRef", order |-> 5],
     [id |-> "concept_search", label |-> "Running concept searches", order |-> 6],
     [id |-> "deduplicating", label |-> "Removing duplicates", order |-> 7],
     [id |-> "ranking", label |-> "Ranking by relevance", order |-> 8],
     [id |-> "filtering", label |-> "Filtering with AI", order |-> 9],
     [id |-> "generating_findings", label |-> "Generating findings", order |-> 10],
     [id |-> "extracting_protocols", label |-> "Extracting protocols", order |-> 11] >>

NumSteps == Len(PROGRESS_STEPS_CONFIG)

createInitialProgress ==
  [ steps |-> [i \in 1..NumSteps |->
                 [ id |-> PROGRESS_STEPS_CONFIG[i].id,
                   label |-> PROGRESS_STEPS_CONFIG[i].label,
                   status |-> "pending",
                   detail |-> Undefined ]],
    currentStepId |-> Null,
    progressPercent |-> 0,
    isComplete |-> FALSE,
    hasError |-> FALSE,
    errorMessage |-> Undefined ]

\* -------------------------------------------------------- state.service.ts
\* The signals of StateService, as one record.
InitialState ==
  [ report |-> NullObj,
    isLoading |-> FALSE,
    loadingMessage |-> "",
    followUpMessages |-> <<>>,
    activeTab |-> "findings",
    expandedSources |-> {},
    error |-> Null,
    isFollowUpLoading |-> FALSE,
    progress |-> createInitialProgress ]

\* Faulty variant: the report is stored and the steps keep their status.
setReport_keepSteps(s, report) ==
  IF report # NullObj
  THEN [s EXCEPT !.report = report,
                 !.error = Null,
                 !.progress = [s.progress EXCEPT
                    !.isComplete = TRUE,
                    !.progressPercent = 100]]
  ELSE [s EXCEPT !.report = report]

setReport(s, report) ==
  IF report # NullObj
  THEN [s EXCEPT !.report = report,
                 !.error = Null,
                 !.progress = [s.progress EXCEPT
                    !.isComplete = TRUE,
                    !.progressPercent = 100,
                    !.steps = [i \in 1..Len(s.progress.steps) |->
                                 [s.progress.steps[i] EXCEPT !.status = "complete"]]]]
  ELSE [s EXCEPT !.report = report]

\* Faulty variant: setLoading never rebuilds the progress.
setLoading_keepProgress(s, isLoading, message) ==
  [s EXCEPT !.isLoading = isLoading, !.loadingMessage = message]

setLoading(s, isLoading, message) ==
  LET s1 == [s EXCEPT !.isLoading = isLoading, !.loadingMessage = message]
  IN IF isLoading THEN [s1 EXCEPT !.progress = createInitialProgress] ELSE s1

\* current.steps.findIndex((s) => s.id === event.step): 0 stands for -1.
findIndex(steps, id) ==
  IF \E i \in 1..Len(steps) : steps[i].id = id
  THEN CHOOSE i \in 1..Len(steps) :
         /\ steps[i].id = id
         /\ \A j \in 1..(i-1) : steps[j].id # id
  ELSE 0

\* Faulty variant: the steps after the matched one keep their status.
updateProgressSteps_keepFuture(steps, stepIndex, detail) ==
  [idx \in 1..Len(steps) |->
     IF idx < stepIndex
     THEN [steps[idx] EXCEPT !.status = "complete"]
     ELSE IF idx = stepIndex
          THEN [steps[idx] EXCEPT !.status = "active",
                                  !.detail = OrElse(detail, Undefined)]
          ELSE steps[idx]]

\* Faulty variant: the steps before the matched one keep their status.
updateProgressSteps_keepPrevious(steps, stepIndex, detail) ==
  [idx \in 1..Len(steps) |->
     IF idx < stepIndex
     THEN steps[idx]
     ELSE IF idx = stepIndex
          THEN [steps[idx] EXCEPT !.status = "active",
                                  !.detail = OrElse(detail, Undefined)]
          ELSE [steps[idx] EXCEPT !.status = "pending"]]

\* Faulty variant: the steps after the matched one are dropped.
updateProgressSteps_dropLater(steps, stepIndex, detail) ==
  [idx \in 1..stepIndex |->
     IF idx < stepIndex
     THEN [steps[idx] EXCEPT !.status = "complete"]
     ELSE [steps[idx] EXCEPT !.status = "active",
                             !.detail = OrElse(detail, Undefined)]]

updateProgressSteps(steps, stepIndex, detail) ==
  [idx \in 1..Len(steps) |->
     IF idx < stepIndex
     THEN [steps[idx] EXCEPT !.status = "complete"]
     ELSE IF idx = stepIndex
          THEN [steps[idx] EXCEPT !.status = "active",
                                  !.detail = OrElse(detail, Undefined)]
          ELSE [steps[idx] EXCEPT !.status = "pending"]]

\* Faulty variant: an event of an unknown step still sets currentStepId
\* and progressPercent.
updateProgress_unknownApplied(s, event) ==
  LET current == s.progress
      stepIndex == findIndex(current.steps, Get(event, "step"))
      steps == IF stepIndex = 0
               THEN current.steps
               ELSE updateProgressSteps(current.steps, stepIndex, Get(event, "detail"))
      next == [current EXCEPT
                 !.steps = steps,
                 !.currentStepId = Get(event, "step"),
                 !.progressPercent = Get(event, "progress")]
  IN [s EXCEPT !.progress = next, !.loadingMessage = Get(event, "message")]

\* Faulty variant: the percentage is clamped so that it never goes down.
updateProgress_clamped(s, event) ==
  LET current == s.progress
      stepIndex == findIndex(current.steps, Get(event, "step"))
      next == IF stepIndex = 0
              THEN current
              ELSE [current EXCEPT
                      !.steps = updateProgressSteps(current.steps, stepIndex,
                                                    Get(event, "detail")),
                      !.currentStepId = Get(event, "step"),
                      !.progressPercent =
                         IF Get(event, "progress") > @ THEN Get(event, "progress") ELSE @]
  IN [s EXCEPT !.progress = next, !.loadingMessage = Get(event, "message")]

updateProgress(s, event) ==
  LET current == s.progress
      stepIndex == findIndex(current.steps, Get(event, "step"))
      next == IF stepIndex = 0
              THEN current
              ELSE [current EXCEPT
                      !.steps = updateProgressSteps(current.steps, stepIndex,
                                                    Get(event, "detail")),
                      !.currentStepId = Get(event, "step"),
                      !.progressPercent = Get(event, "progress")]
  IN [s EXCEPT !.progress = next, !.loadingMessage = Get(event, "message")]

\* Faulty variant: an error also sets the percentage back to 0.
setProgressError_zeroPercent(s, errorMessage) ==
  [s EXCEPT !.progress = [s.progress EXCEPT
      !.hasError = TRUE,
      !.errorMessage = errorMessage,
      !.progressPercent = 0,
      !.steps = [i \in 1..Len(s.progress.steps) |->
                   IF s.progress.steps[i].status = "active"
                   THEN [s.progress.steps[i] EXCEPT !.status = "error"]
                   ELSE s.progress.steps[i]]]]

\* Faulty variant: every step that is not complete becomes an error.
setProgressError_allError(s, errorMessage) ==
  [s EXCEPT !.progress = [s.progress EXCEPT
      !.hasError = TRUE,
      !.errorMessage = errorMessage,
      !.steps = [i \in 1..Len(s.progress.steps) |->
                   IF s.progress.steps[i].status # "complete"
                   THEN [s.progress.steps[i] EXCEPT !.status = "error"]
                   ELSE s.progress.steps[i]]]]

setProgressError(s, errorMessage) ==
  [s EXCEPT !.progress = [s.progress EXCEPT
      !.hasError = TRUE,
      !.errorMessage = errorMessage,
      !.steps = [i \in 1..Len(s.progress.steps) |->
                   IF s.progress.steps[i].status = "active"
                   THEN [s.progress.steps[i] EXCEPT !.status = "error"]
                   ELSE s.progress.steps[i]]]]

setError(s, error) == [s EXCEPT !.error = error]

addFollowUpMessage(s, question, answer) ==
  [s EXCEPT !.followUpMessages = Append(@, [question |-> question, answer |-> answer])]

setFollowUpLoading(s, isLoading) == [s EXCEPT !.isFollowUpLoading = isLoading]

\* Faulty variant: the reset leaves the progress as it is.
resetState_keepProgress(s) ==
  [s EXCEPT !.report = NullObj,
            !.followUpMessages = <<>>,
            !.expandedSources = {},
            !.activeTab = "findings",
            !.error = Null,
            !.isLoading = FALSE]

resetState(s) ==
  [s EXCEPT !.report = NullObj,
            !.followUpMessages = <<>>,
            !.expandedSources = {},
            !.activeTab = "findings",
            !.error = Null,
            !.isLoading = FALSE,
            !.progress = createInitialProgress]

\* Faulty variant: a 'complete' event ends the loading state.
onEvent_completeHandled(s, event) ==
  IF event.type = "progress"
  THEN updateProgress(s, event.data)
  ELSE IF event.type = "report"
       THEN setLoading(setReport(s, event.data), FALSE, "")
       ELSE IF event.type = "error"
            THEN LET msg == OrElse(Get(event.data, "message"), Get(event.data, "error"))
                 IN setLoading(setProgressError(setError(s, msg), msg), FALSE, "")
            ELSE IF event.type = "complete" THEN setLoading(s, FALSE, "") ELSE s

\* ------------------------------------------- report-page.component.ts
\* The next handler of the subscription made by generateReport.
onEvent(s, event) ==
  IF event.type = "progress"
  THEN updateProgress(s, event.data)
  ELSE IF event.type = "report"
       THEN setLoading(setReport(s, event.data), FALSE, "")
       ELSE IF event.type = "error"
            THEN LET msg == OrElse(Get(event.data, "message"), Get(event.data, "error"))
                 IN setLoading(setProgressError(setError(s, msg), msg), FALSE, "")
            ELSE s

\* ------------------------------------------------------------ wire atoms
NL == "\n"
EVENT_ == "event: "
DATA_ == "data: "

Words == {"progress", "report", "error", "complete", "heartbeat"}

\* \w : the atoms made of word characters only.
IsWord(a) == a \in Words

\* White space for String.prototype.trim and for JSON.parse.
IsSpace(a) == a \in {NL, " "}

\* The two bytes of U+00E9 in UTF-8, the character itself, and U+FFFD.
ByteC3 == "0xC3"
ByteA9 == "0xA9"
CharE9 == "U+00E9"
CharFFFD == "U+FFFD"

\* ------------------------------------------- report.service.ts, decoder
\* decoder.decode(value, { stream: true }): pending is the incomplete
\* character the decoder holds back between two calls.
RECURSIVE decodeBytes(_, _)
decodeBytes(bytes, stream) ==
  IF bytes = <<>>
  THEN [text |-> <<>>, pending |-> <<>>]
  ELSE IF Head(bytes) = ByteC3
       THEN IF Len(bytes) = 1
            THEN IF stream
                 THEN [text |-> <<>>, pending |-> bytes]
                 ELSE [text |-> <<CharFFFD>>, pending |-> <<>>]
            ELSE IF bytes[2] = ByteA9
                 THEN LET rest == decodeBytes(SubSeq(bytes, 3, Len(bytes)), stream)
                      IN [rest EXCEPT !.text = <<CharE9>> \o rest.text]
                 ELSE LET rest == decodeBytes(Tail(bytes), stream)
                      IN [rest EXCEPT !.text = <<CharFFFD>> \o rest.text]
       ELSE LET rest == decodeBytes(Tail(bytes), stream)
            IN [rest EXCEPT !.text =
                  <<IF Head(bytes) = ByteA9 THEN CharFFFD ELSE Head(bytes)>> \o rest.text]

\* Faulty variant: decoder.decode(value) without { stream: true }.
decode_noStream(pending, value) == decodeBytes(pending \o value, FALSE)

decode(pending, value) == decodeBytes(pending \o value, TRUE)

\* --------------------------------------- report.service.ts, frame parser
\* buffer.split('\n\n'): the segments between non-overlapping delimiters,
\* found left to right; always at least one segment.
RECURSIVE split(_)
split(buf) ==
  IF \E i \in 1..(Len(buf) - 1) : buf[i] = NL /\ buf[i+1] = NL
  THEN LET i == CHOOSE i \in 1..(Len(buf) - 1) :
                  /\ buf[i] = NL /\ buf[i+1] = NL
                  /\ \A j \in 1..(i-1) : ~(buf[j] = NL /\ buf[j+1] = NL)
       IN <<SubSeq(buf, 1, i-1)>> \o split(SubSeq(buf, i+2, Len(buf)))
  ELSE <<buf>>

\* lines.pop() || '' and the lines left after the pop.
popped(lines) == lines[Len(lines)]

\* Faulty variant: the last segment is left among the lines to emit.
beforePop_keepLast(lines) == lines

beforePop(lines) == SubSeq(lines, 1, Len(lines) - 1)

\* !chunk.trim()
isBlank(chunk) == \A i \in 1..Len(chunk) : IsSpace(chunk[i])

NoMatch == "<no match>"

\* chunk.match(/event: (\w+)/): group 1 of the first match, or NoMatch.
eventMatch(chunk) ==
  LET hits == {i \in 1..(Len(chunk) - 1) : chunk[i] = EVENT_ /\ IsWord(chunk[i+1])}
  IN IF hits = {} THEN NoMatch
     ELSE chunk[(CHOOSE i \in hits : \A j \in hits : i <= j) + 1]

\* chunk.match(/data: (.+)/s): group 1 of the first match (with the s flag
\* it runs to the end of the segment); <<>> when there is no match.
dataMatch(chunk) ==
  LET hits == {i \in 1..(Len(chunk) - 1) : chunk[i] = DATA_}
  IN IF hits = {} THEN <<>>
     ELSE SubSeq(chunk, (CHOOSE i \in hits : \A j \in hits : i <= j) + 1, Len(chunk))

\* ---------------------------------------------------------- JSON payloads
JsonOptimizing ==
  << "{\"step\":\"optim",
     "izing\",\"message\":\"m1\",\"detail\":null,\"progress\":5}" >>

JsonRankingHead == "{\"step\":\"ranking\",\"message\":\"m2\",\"detail\":\""
JsonRankingTail == "\",\"progress\":50}"

JsonRanking(chars) == <<JsonRankingHead>> \o chars \o <<JsonRankingTail>>

JsonReport == << "{\"id\":\"r1\",", "\"question\":\"q\"}" >>

JsonError == << "{\"message\":", "\"boom\"}" >>

NotJson == << "not-json" >>

JsonComplete == << "{\"status\":\"done\"}" >>

JsonStatus == << "{\"message\":\"searching\"}" >>

JsonThread == << "{\"thread_id\":\"t1\"}" >>

\* The JSON texts that can occur on the wire of this model, with the value
\* JSON.parse returns for each; every other text over the atoms is not JSON.
JsonTable ==
  { [text |-> JsonOptimizing,
     value |-> [step |-> "optimizing", message |-> "m1", detail |-> Null, progress |-> 5]],
    [text |-> JsonRanking(<<CharE9>>),
     value |-> [step |-> "ranking", message |-> "m2", detail |-> CharE9, progress |-> 50]],
    [text |-> JsonRanking(<<CharFFFD>>),
     value |-> [step |-> "ranking", message |-> "m2", detail |-> CharFFFD, progress |-> 50]],
    [text |-> JsonRanking(<<CharFFFD, CharFFFD>>),
     value |-> [step |-> "ranking", message |-> "m2", detail |-> "U+FFFD U+FFFD", progress |-> 50]],
    [text |-> JsonReport, value |-> [id |-> "r1", question |-> "q"]],
    [text |-> JsonError, value |-> [message |-> "boom"]],
    [text |-> JsonComplete, value |-> [status |-> "done"]],
    [text |-> JsonStatus, value |-> [message |-> "searching"]],
    [text |-> JsonThread, value |-> [thread_id |-> "t1"]] }

RECURSIVE trimLeft(_)
trimLeft(s) == IF s # <<>> /\ IsSpace(Head(s)) THEN trimLeft(Tail(s)) ELSE s

RECURSIVE trimRight(_)
trimRight(s) ==
  IF s # <<>> /\ IsSpace(s[Len(s)]) THEN trimRight(SubSeq(s, 1, Len(s) - 1)) ELSE s

\* JSON.parse(text) throws a SyntaxError unless jsonValid(text).
jsonValid(text) == \E e \in JsonTable : e.text = trimRight(trimLeft(text))

jsonParse(text) == (CHOOSE e \in JsonTable : e.text = trimRight(trimLeft(text))).value

SyntaxErrorMessage == "Unexpected token in JSON"

\* ---------------------------------------------------------------- state
Runs == 1..MaxRuns

VARIABLES
  state,            \* StateService: the signals
  currentReportId,  \* ReportService.currentReportId
  nRuns,            \* number of generateReport calls made so far
  pc,               \* per run: "idle", "fetching", "reading", "done"
  wire,             \* per run: bytes sent by the server and not yet read
  nWritten,         \* per run: pieces the server has written
  decoder,          \* per run: bytes held back by the TextDecoder
  buffer,           \* per run: the buffer of the read loop
  received,         \* per run: the bytes read so far (history)
  midPayload,       \* per run: some read ended inside a JSON payload (history)
  observed,         \* per run: the events passed to subject.next (history)
  completed,        \* per run: number of subject.complete() calls (history)
  closedBy,         \* per run: the path that closed the channel (history)
  seenId,           \* per run: currentReportId at each subject.next (history)
  requests,         \* per run: number of fetch calls made (history)
  subscribed,       \* per run: the page has subscribed to the channel
  last,             \* the last operation applied to the state (history)
  followUp,         \* the follow-up POST requests of the page in flight
  paper             \* PaperService: the EventSource and the Subject of a stream

streamVars == <<pc, wire, nWritten, decoder, buffer, received, midPayload,
               observed, completed, closedBy, seenId, requests, subscribed>>

vars == <<state, currentReportId, nRuns, pc, wire, nWritten, decoder,
          buffer, received, midPayload, observed, completed, closedBy,
          seenId, requests, subscribed, last, followUp, paper>>

\* ------------------------------------ report.service.ts, generateReport
\* The body of the for loop over the complete segments of one chunk, with
\* the subscriber's handler run inside subject.next.  ctx.thrown is the
\* message of the exception that left the loop, or Null.
\* Faulty variant: if (eventMatch || dataMatch)
frameMatches_either(em, dm) == em # NoMatch \/ dm # <<>>

\* if (eventMatch && dataMatch)
frameMatches(em, dm) == em # NoMatch /\ dm # <<>>

\* Faulty variant: subject.next before the assignment of currentReportId.
deliver_nextFirst(ctx, eventType, data) ==
  LET ev == [type |-> eventType, data |-> data]
  IN [ctx EXCEPT
        !.obs = Append(@, ev),
        !.seen = Append(@, ctx.rid),
        !.st = onEvent(@, ev),
        !.rid = IF eventType = "report" THEN Get(data, "id") ELSE @]

\* Faulty variant: an error frame is forwarded and then ends the read loop.
deliver_errorEndsLoop(ctx, eventType, data) ==
  LET rid == IF eventType = "report" THEN Get(data, "id") ELSE ctx.rid
      ev == [type |-> eventType, data |-> data]
  IN [ctx EXCEPT
        !.rid = rid,
        !.obs = Append(@, ev),
        !.seen = Append(@, rid),
        !.st = onEvent(@, ev),
        !.thrown = IF eventType = "error" THEN "stream closed" ELSE @]

\* Faulty variant: the event is passed on and the subscriber's handler is
\* not run inside subject.next.
deliver_handlerDeferred(ctx, eventType, data) ==
  LET rid == IF eventType = "report" THEN Get(data, "id") ELSE ctx.rid
      ev == [type |-> eventType, data |-> data]
  IN [ctx EXCEPT !.rid = rid, !.obs = Append(@, ev), !.seen = Append(@, rid)]

\* if (eventType === 'report') this.currentReportId = data.id;
\* subject.next({type: eventType, data}): the subscriber's handler runs
\* inside next and reads the session as the assignment left it.
deliver(ctx, eventType, data) ==
  LET rid == IF eventType = "report" THEN Get(data, "id") ELSE ctx.rid
      ev == [type |-> eventType, data |-> data]
  IN [ctx EXCEPT
        !.rid = rid,
        !.obs = Append(@, ev),
        !.seen = Append(@, rid),
        !.st = IF ctx.sub THEN onEvent(@, ev) ELSE @]

\* Faulty variant: the segments of a chunk are processed newest first.
RECURSIVE processLines_newestFirst(_, _)
processLines_newestFirst(lines, ctx) ==
  IF lines = <<>> \/ ctx.thrown # Null
  THEN ctx
  ELSE LET chunk == lines[Len(lines)]
           rest == SubSeq(lines, 1, Len(lines) - 1)
           em == eventMatch(chunk)
           dm == dataMatch(chunk)
       IN IF isBlank(chunk)
          THEN processLines_newestFirst(rest, ctx)
          ELSE IF frameMatches(em, dm)
               THEN IF ~jsonValid(dm)
                    THEN [ctx EXCEPT !.thrown = SyntaxErrorMessage]
                    ELSE processLines_newestFirst(rest, deliver(ctx, em, jsonParse(dm)))
               ELSE processLines_newestFirst(rest, ctx)

RECURSIVE processLines(_, _)
processLines(lines, ctx) ==
  IF lines = <<>> \/ ctx.thrown # Null
  THEN ctx
  ELSE LET chunk == Head(lines)
           em == eventMatch(chunk)
           dm == dataMatch(chunk)
       IN IF isBlank(chunk)
          THEN processLines(Tail(lines), ctx)
          ELSE IF frameMatches(em, dm)
               THEN IF ~jsonValid(dm)
                    THEN [ctx EXCEPT !.thrown = SyntaxErrorMessage]
                    ELSE processLines(Tail(lines), deliver(ctx, em, jsonParse(dm)))
               ELSE processLines(Tail(lines), ctx)

\* The text read so far ends inside a JSON payload: after an atom of a
\* payload that is not its last, or inside a multi-byte character.
PayloadOpenings == {JsonOptimizing[1], JsonRankingHead, CharE9, JsonReport[1], JsonError[1]}

insidePayload(buf, pending) ==
  \/ pending # <<>>
  \/ buf # <<>> /\ buf[Len(buf)] \in PayloadOpenings

\* One iteration of the read loop on a chunk of bytes.
readIteration(pending, buf, value, ctx) ==
  LET dec == decode(pending, value)
      lines == split(buf \o dec.text)
  IN [ pending |-> dec.pending,
       buffer |-> popped(lines),
       ctx |-> processLines(beforePop(lines), ctx) ]

\* Faulty variant: the catch handler emits the error event twice.
catchError_twice(ctx, message) ==
  LET ev == [type |-> "error", data |-> [message |-> message]]
  IN [ctx EXCEPT !.obs = @ \o <<ev, ev>>, !.seen = @ \o <<ctx.rid, ctx.rid>>,
                 !.st = onEvent(onEvent(@, ev), ev), !.thrown = Null]

\* .catch((error) => { subject.next({type: 'error', ...}); subject.complete() })
catchError(ctx, message) ==
  LET ev == [type |-> "error", data |-> [message |-> message]]
  IN [ctx EXCEPT !.obs = Append(@, ev), !.seen = Append(@, ctx.rid),
                 !.st = IF ctx.sub THEN onEvent(@, ev) ELSE @, !.thrown = Null]

Ctx(r) ==
  [ rid |-> currentReportId, st |-> state, obs |-> observed[r],
    seen |-> seenId[r], sub |-> subscribed[r], thrown |-> Null ]

\* The last event delivered and the number of events delivered with it.
LastOf(obs, n) == [op |-> "event", event |-> obs[Len(obs)], n |-> n]

\* ------------------------------------------------------------- the server
Frame(name, payload) == <<EVENT_, name, NL, DATA_>> \o payload \o <<NL, NL>>

FrameOptimizing == Frame("progress", JsonOptimizing)
FrameRanking == Frame("progress", JsonRanking(<<ByteC3, ByteA9>>))
FrameReport == Frame("report", JsonReport)
FrameError == Frame("error", JsonError)
FrameNotJson == Frame("progress", NotJson)
FrameComplete == Frame("complete", JsonComplete)
FrameHeartbeat == Frame("heartbeat", JsonComplete)
SegmentNoData == <<EVENT_, "progress", NL, NL>>
SegmentNoEvent == <<DATA_>> \o JsonReport \o <<NL, NL>>

\* A report frame whose delimiter stops after its first newline.
FrameReportUnterminated == <<EVENT_, "report", NL, DATA_>> \o JsonReport \o <<NL>>

Pieces == { FrameOptimizing, FrameRanking, FrameReport, FrameError,
            FrameNotJson, SegmentNoData, SegmentNoEvent, FrameReportUnterminated }

NetworkErrorMessage == "network error"
NoBodyMessage == "No response body"

\* PaperService before researchStream is called: no EventSource yet.
InitialPaper ==
  [ pc |-> "idle", observed |-> <<>>, isStopped |-> FALSE, completed |-> 0,
    closes |-> 0, currentThreadId |-> Null, dispatched |-> 0 ]

Init ==
  /\ state = InitialState
  /\ currentReportId = Null
  /\ nRuns = 0
  /\ pc = [r \in Runs |-> "idle"]
  /\ wire = [r \in Runs |-> <<>>]
  /\ nWritten = [r \in Runs |-> 0]
  /\ decoder = [r \in Runs |-> <<>>]
  /\ buffer = [r \in Runs |-> <<>>]
  /\ received = [r \in Runs |-> <<>>]
  /\ midPayload = [r \in Runs |-> FALSE]
  /\ observed = [r \in Runs |-> <<>>]
  /\ completed = [r \in Runs |-> 0]
  /\ closedBy = [r \in Runs |-> "open"]
  /\ seenId = [r \in Runs |-> <<>>]
  /\ requests = [r \in Runs |-> 0]
  /\ subscribed = [r \in Runs |-> FALSE]
  /\ last = [op |-> "init"]
  /\ followUp = [asked |-> 0, pending |-> <<>>]
  /\ paper = InitialPaper

\* Faulty variant: the page subscribes to the channel in a later task.
PageGenerateReport_lateSubscribe ==
  /\ nRuns < MaxRuns
  /\ state.report = NullObj /\ ~state.isLoading
  /\ nRuns' = nRuns + 1
  /\ state' = setLoading(state, TRUE, "Initializing research...")
  /\ currentReportId' = Null
  /\ pc' = [pc EXCEPT ![nRuns + 1] = "fetching"]
  /\ requests' = [requests EXCEPT ![nRuns + 1] = @ + 1]
  /\ last' = [op |-> "generateReport"]
  /\ UNCHANGED <<wire, nWritten, decoder, buffer, received, midPayload,
                 observed, completed, closedBy, seenId, subscribed>>
  /\ UNCHANGED <<followUp, paper>>

\* Faulty variant: a generation can be started while a report is displayed.
PageGenerateReport_withReport ==
  /\ nRuns < MaxRuns
  /\ ~state.isLoading
  /\ nRuns' = nRuns + 1
  /\ state' = setLoading(state, TRUE, "Initializing research...")
  /\ currentReportId' = Null
  /\ pc' = [pc EXCEPT ![nRuns + 1] = "fetching"]
  /\ requests' = [requests EXCEPT ![nRuns + 1] = @ + 1]
  /\ subscribed' = [subscribed EXCEPT ![nRuns + 1] = TRUE]
  /\ last' = [op |-> "generateReport"]
  /\ UNCHANGED <<wire, nWritten, decoder, buffer, received, midPayload,
                 observed, completed, closedBy, seenId>>
  /\ UNCHANGED <<followUp, paper>>

\* ReportPageComponent.generateReport, up to the return of
\* ReportService.generateReport and the subscribe.  The search input that
\* raises it is shown only without a report and while not loading
\* (template: *ngIf="!state.hasReport() && !state.isLoading()").
PageGenerateReport ==
  /\ nRuns < MaxRuns
  /\ state.report = NullObj /\ ~state.isLoading
  /\ nRuns' = nRuns + 1
  /\ state' = setLoading(state, TRUE, "Initializing research...")
  /\ currentReportId' = Null
  /\ pc' = [pc EXCEPT ![nRuns + 1] = "fetching"]
  /\ requests' = [requests EXCEPT ![nRuns + 1] = @ + 1]
  /\ subscribed' = [subscribed EXCEPT ![nRuns + 1] = TRUE]
  /\ last' = [op |-> "generateReport"]
  /\ UNCHANGED <<wire, nWritten, decoder, buffer, received, midPayload,
                 observed, completed, closedBy, seenId>>
  /\ UNCHANGED <<followUp, paper>>

\* Faulty variant: newReport without reportService.resetReport().
NewReport_keepId ==
  /\ state.report # NullObj
  /\ state' = resetState(state)
  /\ last' = [op |-> "newReport"]
  /\ UNCHANGED <<currentReportId, nRuns, streamVars>>
  /\ UNCHANGED <<followUp, paper>>

\* ReportPageComponent.newReport; its button is shown only with a report
\* (template: *ngIf="state.hasReport()").
NewReport ==
  /\ state.report # NullObj
  /\ state' = resetState(state)
  /\ currentReportId' = Null
  /\ last' = [op |-> "newReport"]
  /\ UNCHANGED <<nRuns, streamVars>>
  /\ UNCHANGED <<followUp, paper>>

\* fetch resolves with a response that has a body: the reader is taken and
\* the first read is awaited.
FetchResolve(r) ==
  /\ pc[r] = "fetching"
  /\ pc' = [pc EXCEPT ![r] = "reading"]
  /\ UNCHANGED <<state, currentReportId, nRuns, wire, nWritten, decoder,
                 buffer, received, midPayload, observed, completed, closedBy,
                 seenId, requests,
                 subscribed, last>>
  /\ UNCHANGED <<followUp, paper>>

\* Faulty variant: without a body the error is emitted and the read loop
\* is entered all the same.
FetchNoBody_thenRead(r) ==
  /\ pc[r] = "fetching"
  /\ LET ev == [type |-> "error", data |-> [message |-> NoBodyMessage]]
     IN /\ observed' = [observed EXCEPT ![r] = Append(@, ev)]
        /\ seenId' = [seenId EXCEPT ![r] = Append(@, currentReportId)]
        /\ state' = onEvent(state, ev)
        /\ last' = [op |-> "event", event |-> ev, n |-> 1]
  /\ closedBy' = [closedBy EXCEPT ![r] = "noBody"]
  /\ pc' = [pc EXCEPT ![r] = "reading"]
  /\ UNCHANGED <<currentReportId, nRuns, wire, nWritten, decoder,
                 buffer, received, midPayload, completed, requests, subscribed>>
  /\ UNCHANGED <<followUp, paper>>

\* fetch resolves with a response without a body.
FetchNoBody(r) ==
  /\ pc[r] = "fetching"
  /\ LET ev == [type |-> "error", data |-> [message |-> NoBodyMessage]]
     IN /\ observed' = [observed EXCEPT ![r] = Append(@, ev)]
        /\ seenId' = [seenId EXCEPT ![r] = Append(@, currentReportId)]
        /\ state' = IF subscribed[r] THEN onEvent(state, ev) ELSE state
        /\ last' = [op |-> "event", event |-> ev, n |-> 1]
  /\ completed' = [completed EXCEPT ![r] = @ + 1]
  /\ closedBy' = [closedBy EXCEPT ![r] = "noBody"]
  /\ pc' = [pc EXCEPT ![r] = "done"]
  /\ UNCHANGED <<currentReportId, nRuns, wire, nWritten, decoder,
                 buffer, received, midPayload, requests, subscribed>>
  /\ UNCHANGED <<followUp, paper>>

\* Faulty variant: after a first failure the request is issued again.
NetworkFail_retry(r) ==
  /\ pc[r] \in {"fetching", "reading"}
  /\ requests[r] < 2
  /\ requests' = [requests EXCEPT ![r] = @ + 1]
  /\ pc' = [pc EXCEPT ![r] = "fetching"]
  /\ UNCHANGED <<state, currentReportId, nRuns, wire, nWritten, decoder, buffer,
                 received, midPayload, observed, completed, closedBy, seenId,
                 subscribed, last>>
  /\ UNCHANGED <<followUp, paper>>

\* fetch rejects, or an awaited reader.read() rejects.
NetworkFail(r) ==
  /\ pc[r] \in {"fetching", "reading"}
  /\ LET c == catchError(Ctx(r), NetworkErrorMessage)
     IN /\ observed' = [observed EXCEPT ![r] = c.obs]
        /\ seenId' = [seenId EXCEPT ![r] = c.seen]
        /\ state' = c.st
        /\ last' = LastOf(c.obs, 1)
  /\ completed' = [completed EXCEPT ![r] = @ + 1]
  /\ closedBy' = [closedBy EXCEPT ![r] = "catch"]
  /\ pc' = [pc EXCEPT ![r] = "done"]
  /\ UNCHANGED <<currentReportId, nRuns, wire, nWritten, decoder,
                 buffer, received, midPayload, requests, subscribed>>
  /\ UNCHANGED <<followUp, paper>>

RECURSIVE SumTo(_, _)
SumTo(f, n) == IF n = 0 THEN 0 ELSE f[n] + SumTo(f, n - 1)

\* The pieces written so far, over all runs.
TotalWritten == SumTo(nWritten, MaxRuns)

\* The server writes one more piece of the response body.
ServerWrite(r, piece) ==
  /\ pc[r] = "reading"
  /\ TotalWritten < MaxPieces
  /\ wire' = [wire EXCEPT ![r] = @ \o piece]
  /\ nWritten' = [nWritten EXCEPT ![r] = @ + 1]
  /\ UNCHANGED <<state, currentReportId, nRuns, pc, decoder, buffer,
                 received, midPayload, observed, completed, closedBy, seenId, requests,
                 subscribed, last>>
  /\ UNCHANGED <<followUp, paper>>

\* reader.read() resolves with the next k bytes: one iteration of the loop,
\* and the catch handler when the iteration throws.
ReadChunk(r, k) ==
  /\ pc[r] = "reading"
  /\ k \in 1..Len(wire[r])
  /\ \E it \in {readIteration(decoder[r], buffer[r], SubSeq(wire[r], 1, k), Ctx(r))} :
     \E c \in {IF it.ctx.thrown # Null THEN catchError(it.ctx, it.ctx.thrown) ELSE it.ctx} :
       /\ wire' = [wire EXCEPT ![r] = SubSeq(@, k + 1, Len(@))]
       /\ decoder' = [decoder EXCEPT ![r] = it.pending]
       /\ buffer' = [buffer EXCEPT ![r] = it.buffer]
       /\ received' = [received EXCEPT ![r] = @ \o SubSeq(wire[r], 1, k)]
       /\ midPayload' = [midPayload EXCEPT ![r] = @ \/ insidePayload(it.buffer, it.pending)]
       /\ observed' = [observed EXCEPT ![r] = c.obs]
       /\ seenId' = [seenId EXCEPT ![r] = c.seen]
       /\ state' = c.st
       /\ currentReportId' = c.rid
       /\ last' = IF Len(c.obs) > Len(observed[r])
                  THEN LastOf(c.obs, Len(c.obs) - Len(observed[r]))
                  ELSE last
       /\ completed' = [completed EXCEPT ![r] = IF it.ctx.thrown # Null THEN @ + 1 ELSE @]
       /\ closedBy' = [closedBy EXCEPT ![r] = IF it.ctx.thrown # Null THEN "catch" ELSE @]
       /\ pc' = [pc EXCEPT ![r] = IF it.ctx.thrown # Null THEN "done" ELSE @]
  /\ UNCHANGED <<nRuns, nWritten, requests, subscribed>>
  /\ UNCHANGED <<followUp, paper>>

\* Faulty variant: at the end of the stream the text left in the buffer is
\* parsed as a last segment.
ReadDone_flush(r) ==
  /\ pc[r] = "reading"
  /\ wire[r] = <<>>
  /\ \E it \in {processLines(<<buffer[r]>>, Ctx(r))} :
     \E c \in {IF it.thrown # Null THEN catchError(it, it.thrown) ELSE it} :
       /\ observed' = [observed EXCEPT ![r] = c.obs]
       /\ seenId' = [seenId EXCEPT ![r] = c.seen]
       /\ state' = c.st
       /\ currentReportId' = c.rid
       /\ last' = IF Len(c.obs) > Len(observed[r])
                  THEN LastOf(c.obs, Len(c.obs) - Len(observed[r]))
                  ELSE last
  /\ completed' = [completed EXCEPT ![r] = @ + 1]
  /\ closedBy' = [closedBy EXCEPT ![r] = "end"]
  /\ pc' = [pc EXCEPT ![r] = "done"]
  /\ UNCHANGED <<nRuns, wire, nWritten, decoder, buffer, received, midPayload,
                 requests, subscribed>>
  /\ UNCHANGED <<followUp, paper>>

\* Faulty variant: the loop goes on reading after subject.complete().
ReadDone_keepReading(r) ==
  /\ pc[r] = "reading"
  /\ wire[r] = <<>>
  /\ completed' = [completed EXCEPT ![r] = @ + 1]
  /\ closedBy' = [closedBy EXCEPT ![r] = "end"]
  /\ UNCHANGED <<state, currentReportId, nRuns, pc, wire, nWritten, decoder,
                 buffer, received, midPayload, observed, seenId, requests,
                 subscribed, last>>
  /\ UNCHANGED <<followUp, paper>>

\* The server has ended the body stream and every byte has been read:
\* reader.read() resolves with done, the loop ends, subject.complete().
ReadDone(r) ==
  /\ pc[r] = "reading"
  /\ wire[r] = <<>>
  /\ completed' = [completed EXCEPT ![r] = @ + 1]
  /\ closedBy' = [closedBy EXCEPT ![r] = "end"]
  /\ pc' = [pc EXCEPT ![r] = "done"]
  /\ UNCHANGED <<state, currentReportId, nRuns, wire, nWritten, decoder,
                 buffer, received, midPayload, observed, seenId, requests,
                 subscribed, last>>
  /\ UNCHANGED <<followUp, paper>>

\* The frames of a server that sends well-formed frames only.
AppPieces == {FrameOptimizing, FrameRanking, FrameReport, FrameError}

\* The application: generations, new reports, well-formed frames; a read
\* returns all the bytes in flight (SpecStream cuts them anywhere).
Next ==
  \/ PageGenerateReport
  \/ NewReport
  \/ \E r \in Runs : FetchResolve(r)
  \/ \E r \in Runs : FetchNoBody(r)
  \/ \E r \in Runs : NetworkFail(r)
  \/ \E r \in Runs : \E piece \in AppPieces : ServerWrite(r, piece)
  \/ \E r \in Runs : ReadChunk(r, Len(wire[r]))
  \/ \E r \in Runs : ReadDone(r)

Spec == Init /\ [][Next]_vars

\* One generation run against a server that can send any piece.
FirstGeneration == nRuns = 0 /\ PageGenerateReport

NextStream ==
  \/ FirstGeneration
  \/ FetchResolve(1)
  \/ FetchNoBody(1)
  \/ NetworkFail(1)
  \/ \E piece \in Pieces : ServerWrite(1, piece)
  \/ \E k \in 1..Len(wire[1]) : ReadChunk(1, k)
  \/ ReadDone(1)

SpecStream == Init /\ [][NextStream]_vars

\* ----------------------------------------------- ReportService on its own
NoReportMessage == "No report loaded"

\* Faulty variant: a missing id defaults to the empty string.
askFollowUp_defaultId(id, question) ==
  LET rid == IF Truthy(id) THEN id ELSE ""
  IN [ thrown |-> Null,
       request |-> [ url |-> <<"/api/reports/", rid, "/followup">>,
                     body |-> [report_id |-> rid, question |-> question] ] ]

\* ReportService.askFollowUp: what the call throws, and the POST request
\* of the Observable it returns.
askFollowUp(id, question) ==
  IF ~Truthy(id)
  THEN [thrown |-> NoReportMessage, request |-> NullObj]
  ELSE [ thrown |-> Null,
         request |-> [ url |-> <<"/api/reports/", id, "/followup">>,
                       body |-> [report_id |-> id, question |-> question] ] ]

\* ReportService.exportPdf: what the call throws, and the URL of the
\* window it opens.
exportPdf(id) ==
  IF ~Truthy(id)
  THEN [thrown |-> NoReportMessage, opened |-> <<>>]
  ELSE [thrown |-> Null, opened |-> <<"/api/reports/", id, "/export/pdf">>]

Questions == {"why?"}

AskFollowUp(question) ==
  /\ last' = [ op |-> "askFollowUp", id |-> currentReportId,
               out |-> askFollowUp(currentReportId, question) ]
  /\ UNCHANGED <<state, currentReportId, nRuns, streamVars>>
  /\ UNCHANGED <<followUp, paper>>

ExportPdf ==
  /\ last' = [op |-> "exportPdf", id |-> currentReportId, out |-> exportPdf(currentReportId)]
  /\ UNCHANGED <<state, currentReportId, nRuns, streamVars>>
  /\ UNCHANGED <<followUp, paper>>

ResetReport ==
  /\ currentReportId' = Null
  /\ last' = [op |-> "resetReport"]
  /\ UNCHANGED <<state, nRuns, streamVars>>
  /\ UNCHANGED <<followUp, paper>>

Answers == {"because"}

\* translate.instant('followup.error'): the text shown for a failed request.
FollowUpErrorText == "followup.error"

\* ReportPageComponent.askFollowUp up to the subscribe: the flag is set, then
\* the service either throws, which ends the handler there, or returns the
\* Observable whose subscription sends the POST request.
PageAskFollowUp(question) ==
  /\ followUp.asked < MaxFollowUps
  /\ \E out \in {askFollowUp(currentReportId, question)} :
       /\ state' = setFollowUpLoading(state, TRUE)
       /\ followUp' = [ asked |-> followUp.asked + 1,
                        pending |-> IF out.thrown = Null
                                    THEN Append(followUp.pending, out.request)
                                    ELSE followUp.pending ]
       /\ last' = [op |-> "pageAskFollowUp", thrown |-> out.thrown]
  /\ UNCHANGED <<currentReportId, nRuns, streamVars, paper>>

Without(seq, i) == SubSeq(seq, 1, i - 1) \o SubSeq(seq, i + 1, Len(seq))

\* The POST request i is answered: the next handler of the page.
FollowUpAnswer(i, answer) ==
  /\ i \in 1..Len(followUp.pending)
  /\ state' = setFollowUpLoading(
                 addFollowUpMessage(state, followUp.pending[i].body.question, answer), FALSE)
  /\ followUp' = [followUp EXCEPT !.pending = Without(@, i)]
  /\ last' = [op |-> "followUpAnswer"]
  /\ UNCHANGED <<currentReportId, nRuns, streamVars, paper>>

\* The POST request i fails: the error handler of the page.
FollowUpHttpError(i) ==
  /\ i \in 1..Len(followUp.pending)
  /\ state' = setFollowUpLoading(
                 addFollowUpMessage(state, followUp.pending[i].body.question, FollowUpErrorText),
                 FALSE)
  /\ followUp' = [followUp EXCEPT !.pending = Without(@, i)]
  /\ last' = [op |-> "followUpHttpError"]
  /\ UNCHANGED <<currentReportId, nRuns, streamVars, paper>>

\* The frames of the application and two frames the page has no branch for.
SessionPieces == AppPieces \cup {FrameComplete, FrameHeartbeat}

\* The methods of ReportService called in any order around one generation
\* run of well-formed frames.
NextSession ==
  \/ FirstGeneration
  \/ FetchResolve(1)
  \/ FetchNoBody(1)
  \/ NetworkFail(1)
  \/ \E piece \in SessionPieces : ServerWrite(1, piece)
  \/ ReadChunk(1, Len(wire[1]))
  \/ ReadDone(1)
  \/ \E question \in Questions : AskFollowUp(question)
  \/ ExportPdf
  \/ ResetReport

SpecSession == Init /\ [][NextSession]_vars

\* The follow-up of the page called in any state around one generation run
\* and the new-report button.
NextFollowUp ==
  \/ FirstGeneration
  \/ FetchResolve(1)
  \/ NetworkFail(1)
  \/ \E piece \in {FrameOptimizing, FrameReport} : ServerWrite(1, piece)
  \/ ReadChunk(1, Len(wire[1]))
  \/ ReadDone(1)
  \/ NewReport
  \/ \E question \in Questions : PageAskFollowUp(question)
  \/ \E i \in 1..MaxFollowUps : \E answer \in Answers : FollowUpAnswer(i, answer)
  \/ \E i \in 1..MaxFollowUps : FollowUpHttpError(i)

SpecFollowUp == Init /\ [][NextFollowUp]_vars

\* ------------------------------------------------ StateService on its own
\* The methods of StateService that touch the report, the loading flag, the
\* error and the progress, called in any order with any argument.
StepIds == {PROGRESS_STEPS_CONFIG[i].id : i \in 1..NumSteps}

DetailSteps == {"optimizing", "ranking"}

ProgressEvents ==
  { e \in [ step : StepIds \cup {"complete", "unknown_step"},
            message : {"m"},
            detail : {Null, "", "3 papers"},
            progress : {5, 50} ] :
      e.detail = Null \/ e.step \in DetailSteps }

Reports == { [id |-> "r1", question |-> "q"] }

ErrorMessages == {"boom", "timeout"}

UpdateProgress(event) ==
  /\ state' = updateProgress(state, event)
  /\ last' = [op |-> "updateProgress", event |-> event]
  /\ UNCHANGED <<currentReportId, nRuns, streamVars>>
  /\ UNCHANGED <<followUp, paper>>

SetProgressError(message) ==
  /\ state' = setProgressError(state, message)
  /\ last' = [op |-> "setProgressError", message |-> message]
  /\ UNCHANGED <<currentReportId, nRuns, streamVars>>
  /\ UNCHANGED <<followUp, paper>>

SetReport(report) ==
  /\ state' = setReport(state, report)
  /\ last' = [op |-> "setReport"]
  /\ UNCHANGED <<currentReportId, nRuns, streamVars>>
  /\ UNCHANGED <<followUp, paper>>

SetLoading(isLoading) ==
  /\ state' = setLoading(state, isLoading, "")
  /\ last' = [op |-> "setLoading", isLoading |-> isLoading]
  /\ UNCHANGED <<currentReportId, nRuns, streamVars>>
  /\ UNCHANGED <<followUp, paper>>

SetError(error) ==
  /\ state' = setError(state, error)
  /\ last' = [op |-> "setError"]
  /\ UNCHANGED <<currentReportId, nRuns, streamVars>>
  /\ UNCHANGED <<followUp, paper>>

ResetState ==
  /\ state' = resetState(state)
  /\ last' = [op |-> "resetState"]
  /\ UNCHANGED <<currentReportId, nRuns, streamVars>>
  /\ UNCHANGED <<followUp, paper>>

NextState ==
  \/ \E event \in ProgressEvents : UpdateProgress(event)
  \/ \E message \in ErrorMessages : SetProgressError(message)
  \/ \E report \in Reports \cup {NullObj} : SetReport(report)
  \/ \E isLoading \in BOOLEAN : SetLoading(isLoading)
  \/ \E error \in ErrorMessages \cup {Null} : SetError(error)
  \/ ResetState

SpecState == Init /\ [][NextState]_vars

\* -------------------------------------- PaperService.researchStream
\* Subject.next: a stopped Subject drops the value.
subjectNext(p, type, data) ==
  IF p.isStopped THEN p
  ELSE [p EXCEPT !.observed = Append(@, [type |-> type, data |-> data])]

\* Subject.complete: the subscribers are notified once.
subjectComplete(p) ==
  IF p.isStopped THEN p
  ELSE [p EXCEPT !.isStopped = TRUE, !.completed = @ + 1]

eventSourceClose(p) == [p EXCEPT !.pc = "closed", !.closes = @ + 1]

\* The listeners of 'status', 'token' and 'protocols'; a JSON.parse that
\* throws ends the listener.
onMessage(p, type, data) ==
  IF jsonValid(data) THEN subjectNext(p, type, jsonParse(data)) ELSE p

\* The listener of 'complete'.
onComplete(p, data) ==
  IF jsonValid(data)
  THEN LET parsed == jsonParse(data)
       IN subjectComplete(eventSourceClose(
            subjectNext([p EXCEPT !.currentThreadId = Get(parsed, "thread_id")],
                        "complete", parsed)))
  ELSE p

\* The listener added with addEventListener('error', ...); data is the
\* data of the event, Undefined for the plain Event of a transport failure.
onErrorEvent(p, data) ==
  IF data # Undefined /\ data # <<>>
  THEN IF jsonValid(data)
       THEN subjectComplete(eventSourceClose(subjectNext(p, "error", jsonParse(data))))
       ELSE p
  ELSE subjectComplete(eventSourceClose(p))

ConnectionLostMessage == "Connection lost"

\* The handler assigned to eventSource.onerror.
onerror(p) ==
  subjectComplete(eventSourceClose(
    subjectNext(p, "error", [message |-> ConnectionLostMessage])))

\* An event of type 'error' dispatched at the EventSource: its listeners run
\* in the order they were registered, the addEventListener one (line 107)
\* before the onerror attribute (line 115).
dispatchError(p, data) == onerror(onErrorEvent(p, data))

MessageTypes == {"status", "token", "protocols"}

PaperPayloads == {JsonStatus, NotJson}

\* researchStream(topic): the EventSource is created and the Subject returned.
ResearchStream ==
  /\ paper.pc = "idle"
  /\ paper' = [paper EXCEPT !.pc = "open"]
  /\ last' = [op |-> "researchStream"]
  /\ UNCHANGED <<state, currentReportId, nRuns, streamVars, followUp>>

\* The server sends a 'status', 'token' or 'protocols' event.
PaperMessage(type, data) ==
  /\ paper.pc = "open" /\ paper.dispatched < MaxPieces
  /\ paper' = [onMessage(paper, type, data) EXCEPT !.dispatched = @ + 1]
  /\ last' = [op |-> "paperMessage"]
  /\ UNCHANGED <<state, currentReportId, nRuns, streamVars, followUp>>

\* The server sends the 'complete' event.
PaperComplete(data) ==
  /\ paper.pc = "open" /\ paper.dispatched < MaxPieces
  /\ paper' = [onComplete(paper, data) EXCEPT !.dispatched = @ + 1]
  /\ last' = [op |-> "paperComplete"]
  /\ UNCHANGED <<state, currentReportId, nRuns, streamVars, followUp>>

\* The server sends an event named 'error', with data.
PaperServerError(data) ==
  /\ paper.pc = "open" /\ paper.dispatched < MaxPieces
  /\ paper' = [dispatchError(paper, data) EXCEPT !.dispatched = @ + 1]
  /\ last' = [op |-> "paperServerError"]
  /\ UNCHANGED <<state, currentReportId, nRuns, streamVars, followUp>>

\* The connection fails: the browser fires a plain 'error' Event, without data.
PaperTransportError ==
  /\ paper.pc = "open"
  /\ paper' = dispatchError(paper, Undefined)
  /\ last' = [op |-> "paperTransportError"]
  /\ UNCHANGED <<state, currentReportId, nRuns, streamVars, followUp>>

NextPaper ==
  \/ ResearchStream
  \/ \E type \in MessageTypes : \E data \in PaperPayloads : PaperMessage(type, data)
  \/ \E data \in {JsonThread, NotJson} : PaperComplete(data)
  \/ \E data \in {JsonError, NotJson} : PaperServerError(data)
  \/ PaperTransportError

SpecPaper == Init /\ [][NextPaper]_vars

\* ===================================================================
\* Properties
\* ===================================================================
IsTerminal(ev) == ev.type \in {"report", "error"}

TerminalCount(obs) == Cardinality({i \in 1..Len(obs) : IsTerminal(obs[i])})

\* The error events made by the transport itself (no body, catch handler).
IsSynthetic(ev) ==
  /\ ev.type = "error"
  /\ Get(ev.data, "message") \in {SyntaxErrorMessage, NetworkErrorMessage, NoBodyMessage}

IsFromFrame(ev) == ~IsSynthetic(ev)

FromFrames(obs) == SelectSeq(obs, IsFromFrame)

HasSyntaxError(obs) ==
  \E i \in 1..Len(obs) :
    obs[i].type = "error" /\ Get(obs[i].data, "message") = SyntaxErrorMessage

Started(r) == pc[r] \in {"reading", "done"}

DecodedText(r) == decodeBytes(received[r], TRUE).text

\* The state in which the first read of the first run starts.
StartCtx ==
  [ rid |-> Null,
    st |-> setLoading(InitialState, TRUE, "Initializing research..."),
    obs |-> <<>>,
    seen |-> <<>>,
    sub |-> TRUE,
    thrown |-> Null ]

\* The read loop run once over all the bytes as one chunk.
WholeParse(bytes) == readIteration(<<>>, <<>>, bytes, StartCtx)

OptimizingEvent ==
  [ type |-> "progress",
    data |-> [step |-> "optimizing", message |-> "m1", detail |-> Null, progress |-> 5] ]

\* C1 (as claimed): when the channel of a run has closed, the events the
\* caller observed contain exactly one terminal event (report or error).
C1_ExactlyOneTerminal ==
  \A r \in Runs : pc[r] = "done" => TerminalCount(observed[r]) = 1

\* C2: however the bytes of the response were cut into chunks, the events
\* made from frames so far, the buffer and the decoder are those of the
\* read loop run once over all the bytes read; a frame cut inside its JSON
\* payload is emitted once, and not before its delimiter has arrived.
C2_FramingIdempotence ==
  Started(1) =>
    \E w \in {WholeParse(received[1])} :
      /\ FromFrames(observed[1]) = w.ctx.obs
      /\ buffer[1] = w.buffer
      /\ decoder[1] = w.pending

\* A read ended inside the payload of the only frame sent, and exactly one
\* event was observed for it.
C2_SplitFrameEmittedOnce ==
  /\ midPayload[1]
  /\ received[1] = FrameOptimizing
  /\ observed[1] = <<OptimizingEvent>>

NoDelimiter(buf) == \A i \in 1..(Len(buf) - 1) : ~(buf[i] = NL /\ buf[i+1] = NL)

IsSuffix(suffix, text) ==
  /\ Len(suffix) <= Len(text)
  /\ suffix = SubSeq(text, Len(text) - Len(suffix) + 1, Len(text))

\* C3: after every read the buffer is the text behind the last delimiter
\* consumed and holds no delimiter; no more frames were emitted than there
\* are complete segments; parsing the buffer again without new data emits
\* nothing and leaves the buffer as it is.
C3_RemainderSafety ==
  Started(1) =>
    \E text \in {DecodedText(1)} :
    \E again \in {readIteration(decoder[1], buffer[1], <<>>, Ctx(1))} :
      /\ NoDelimiter(buffer[1])
      /\ IsSuffix(buffer[1], text)
      /\ \E n \in {Len(text) - Len(buffer[1])} :
           n = 0 \/ (n >= 2 /\ text[n] = NL /\ text[n - 1] = NL)
      /\ Len(FromFrames(observed[1])) <= Len(split(text)) - 1
      /\ again.ctx.obs = observed[1]
      /\ again.buffer = buffer[1]

\* The buffer holds a whole report frame but for its second newline, and
\* nothing was emitted for it.
C3_UnterminatedFrameKept ==
  /\ pc[1] = "reading"
  /\ buffer[1] = <<EVENT_, "report", NL, DATA_>> \o JsonReport \o <<NL>>
  /\ observed[1] = <<>>
  /\ currentReportId = Null

ConfigIndex(id) == CHOOSE i \in 1..NumSteps : PROGRESS_STEPS_CONFIG[i].id = id

ActiveSteps == {i \in 1..Len(state.progress.steps) : state.progress.steps[i].status = "active"}

\* C4: right after updateProgress has applied an event whose step is at
\* index k of the step list, the steps before k are complete, step k is
\* active and the steps after k are pending, whatever came before.
C4_StepOrdering ==
  (last.op = "updateProgress" /\ last.event.step \in StepIds) =>
    \E k \in {ConfigIndex(last.event.step)} :
      \A i \in 1..NumSteps :
        state.progress.steps[i].status =
          IF i < k THEN "complete" ELSE IF i = k THEN "active" ELSE "pending"

\* A progress event for the second step applied after a report and an
\* error: the later steps, complete before, are pending again.
C4_BackwardAfterTerminal ==
  /\ last.op = "updateProgress"
  /\ last.event.step = "searching_pubmed"
  /\ state.progress.isComplete
  /\ state.progress.hasError
  /\ state.progress.steps[NumSteps].status = "pending"

\* C5 (as claimed): the progress is never complete and in error at once.
C5_TerminalExclusivity ==
  ~(state.progress.isComplete /\ state.progress.hasError)

\* C6: right after resetState() and right after setLoading(true) every
\* step is pending and without detail, no step is current, the percentage
\* is 0, and the progress is neither complete nor in error.
C6_ResetPurity ==
  (last.op = "resetState" \/ (last.op = "setLoading" /\ last.isLoading)) =>
    /\ Len(state.progress.steps) = NumSteps
    /\ \A i \in 1..NumSteps :
         /\ state.progress.steps[i].id = PROGRESS_STEPS_CONFIG[i].id
         /\ state.progress.steps[i].label = PROGRESS_STEPS_CONFIG[i].label
         /\ state.progress.steps[i].status = "pending"
         /\ state.progress.steps[i].detail = Undefined
    /\ state.progress.currentStepId = Null
    /\ state.progress.progressPercent = 0
    /\ ~state.progress.isComplete
    /\ ~state.progress.hasError
    /\ state.progress.errorMessage = Undefined

\* A reset after a progress event (its message is still the loading
\* message, which resetState leaves alone).
C6_ResetAfterProgress ==
  /\ last.op = "resetState"
  /\ state.loadingMessage = "m"
  /\ state.progress.progressPercent = 0

\* A step that starts a generation or makes a new report.
IsResetStep ==
  \/ nRuns' # nRuns
  \/ last'.op = "newReport" /\ state.report # NullObj /\ state'.report = NullObj

\* C7 (as claimed): between two resets the percentage never decreases.
C7_NeverDecreases ==
  [][ IsResetStep \/
      state'.progress.progressPercent >= state.progress.progressPercent ]_vars

\* C7 (amended): between two resets the percentage decreases only in a
\* step that applies a progress event, and is then the value that event
\* declares; no other step lowers it.
C7_DecreasesOnlyByProgressEvent ==
  [][ state'.progress.progressPercent < state.progress.progressPercent =>
        \/ IsResetStep
        \/ \E r \in Runs :
             \E i \in (Len(observed[r]) + 1)..Len(observed'[r]) :
               /\ observed'[r][i].type = "progress"
               /\ observed'[r][i].data.progress = state'.progress.progressPercent ]_vars

RankingEvent ==
  [ type |-> "progress",
    data |-> [step |-> "ranking", message |-> "m2", detail |-> CharE9, progress |-> 50] ]

\* A progress event declaring 5 was applied after one declaring 50.
C7_LowerValueApplied ==
  /\ state.progress.progressPercent = 5
  /\ \E r \in Runs :
       /\ Len(observed[r]) >= 2
       /\ observed[r][Len(observed[r]) - 1] = RankingEvent
       /\ observed[r][Len(observed[r])] = OptimizingEvent

\* C8: at most one step is active.
C8_AtMostOneActive == Cardinality(ActiveSteps) <= 1

\* One step is active, after a report and an error have been applied.
C8_OneActiveAfterTerminal ==
  /\ Cardinality(ActiveSteps) = 1
  /\ state.progress.isComplete
  /\ state.progress.hasError

\* The complete segments of a text that are not blank and have both an
\* event match and a data match.
HasBothMatches(seg) ==
  /\ ~isBlank(seg)
  /\ eventMatch(seg) # NoMatch
  /\ dataMatch(seg) # <<>>

MatchingSegments(text) == SelectSeq(beforePop(split(text)), HasBothMatches)

HasValidJson(seg) == jsonValid(dataMatch(seg))

EventOf(seg) == [type |-> eventMatch(seg), data |-> jsonParse(dataMatch(seg))]

\* The events of the matching segments whose data is valid JSON.
ValidEvents(text) ==
  LET segs == SelectSeq(MatchingSegments(text), HasValidJson)
  IN [i \in 1..Len(segs) |-> EventOf(segs[i])]

HasBadJsonSegment(text) ==
  \E seg \in {MatchingSegments(text)[i] : i \in 1..Len(MatchingSegments(text))} :
    ~HasValidJson(seg)

\* C9 (as claimed): a frame whose data is not valid JSON is skipped: the
\* events observed are those of the valid frames before and after it and
\* no error event is made for it.
C9_BadJsonSkipped ==
  (Started(1) /\ HasBadJsonSegment(DecodedText(1))) =>
    /\ ~HasSyntaxError(observed[1])
    /\ FromFrames(observed[1]) = ValidEvents(DecodedText(1))

\* C10: the events made from frames are, in order, those of the complete
\* segments with both matches; a segment without both matches gives no
\* event, does not stop the segments after it, raises no error and leaves
\* the report id alone.
C10_UnmatchedSegmentDropped ==
  Started(1) =>
    \E m \in {MatchingSegments(DecodedText(1))} :
    \E f \in {FromFrames(observed[1])} :
      /\ Len(f) <= Len(m)
      /\ \A i \in 1..Len(f) : HasValidJson(m[i]) /\ f[i] = EventOf(m[i])
      /\ ~HasSyntaxError(observed[1]) => Len(f) = Len(m)
      /\ HasSyntaxError(observed[1]) => \E i \in 1..Len(m) : ~HasValidJson(m[i])
      /\ currentReportId # Null => \E i \in 1..Len(f) : f[i].type = "report"

\* A segment with a report payload but no event line, then a progress
\* frame: one event, the progress, and no report id.
C10_FrameAfterDroppedSegment ==
  /\ received[1] = SegmentNoEvent \o FrameOptimizing
  /\ observed[1] = <<OptimizingEvent>>
  /\ currentReportId = Null

\* ------------------------------------------------------------------ C11
NetworkErrorEvent == [type |-> "error", data |-> [message |-> NetworkErrorMessage]]

HasReport(obs) == \E i \in 1..Len(obs) : obs[i].type = "report"

\* A step in which fetch or a read rejects: the catch handler closes the
\* channel and no byte is read.
IsNetworkFailStep(r) ==
  /\ closedBy[r] = "open"
  /\ closedBy'[r] = "catch"
  /\ received'[r] = received[r]

\* C11: when fetch or a read rejects after n events were delivered, the
\* caller has observed exactly those n events followed by one error event
\* with the failure message, the channel is closed, and the report id is
\* still null when no report event was among the n events.
C11_FailureAfterEvents ==
  [][ IsNetworkFailStep(1) =>
        /\ observed'[1] = Append(observed[1], NetworkErrorEvent)
        /\ completed'[1] = 1
        /\ pc'[1] = "done"
        /\ (~HasReport(observed[1]) => currentReportId' = Null) ]_vars

\* A read failed after a progress event: two events, no report id.
C11_ProgressThenFailure ==
  /\ closedBy[1] = "catch"
  /\ Len(observed[1]) = 2
  /\ observed[1][1].type = "progress"
  /\ observed[1][2] = NetworkErrorEvent
  /\ currentReportId = Null

\* ------------------------------------------------------------------ C12
\* C12: the channel of a run is completed at most once, it is completed
\* exactly when the run has left generateReport's promise chain on one of
\* its three paths (no body, end of stream, catch), and no event is
\* delivered on a completed channel.
C12_CompletedOnce ==
  /\ [](\A r \in Runs :
         /\ completed[r] <= 1
         /\ (completed[r] = 1) = (pc[r] = "done")
         /\ (completed[r] = 1) = (closedBy[r] \in {"noBody", "end", "catch"}))
  /\ [][\A r \in Runs : completed[r] >= 1 => observed'[r] = observed[r]]_vars

\* The first run's channel was closed at the end of its stream after it
\* had delivered events, while the second run is still delivering.
C12_ClosedWhileOtherRunDelivers ==
  /\ closedBy[1] = "end"
  /\ completed[1] = 1
  /\ Len(observed[1]) >= 1
  /\ pc[2] = "reading"
  /\ Len(observed[2]) >= 1

\* ------------------------------------------------------------------ C13
NoBodyEvent == [type |-> "error", data |-> [message |-> NoBodyMessage]]

\* C13: on the path of a response without a body the caller observes one
\* event only, the error "No response body", the channel is closed, no
\* byte is ever read, and the step leaves the report id as it was.
C13_NoBody ==
  /\ [](\A r \in Runs :
         closedBy[r] = "noBody" =>
           /\ observed[r] = <<NoBodyEvent>>
           /\ completed[r] = 1
           /\ received[r] = <<>>
           /\ nWritten[r] = 0)
  /\ [][\A r \in Runs :
         (closedBy[r] = "open" /\ closedBy'[r] = "noBody") =>
           currentReportId' = currentReportId]_vars

\* The second run got a response without a body while the session held the
\* id of a report delivered late by the first run.
C13_NoBodyKeepsId ==
  /\ closedBy[2] = "noBody"
  /\ observed[2] = <<NoBodyEvent>>
  /\ currentReportId = "r1"

\* ------------------------------------------------------------------ C14
\* C14: at the delivery of every report event the session already holds
\* the id of that report, so a handler that reads getCurrentReportId()
\* inside the callback sees it.
C14_IdSetBeforeDelivery ==
  \A r \in Runs :
    /\ Len(seenId[r]) = Len(observed[r])
    /\ \A i \in 1..Len(observed[r]) :
         observed[r][i].type = "report" => seenId[r][i] = Get(observed[r][i].data, "id")

\* A report frame was delivered after a progress frame of the same run:
\* the session held no id at the first delivery and the report's id at the
\* second.
C14_ReportSeenWithId ==
  /\ Len(observed[1]) = 2
  /\ observed[1][1].type = "progress"
  /\ observed[1][2].type = "report"
  /\ seenId[1] = <<Null, "r1">>

\* ------------------------------------------------------------------ C15
\* A step of ReportPageComponent.generateReport or newReport, the two
\* callers of resetReport().
IsSessionResetStep ==
  \/ nRuns' = nRuns + 1
  \/ last'.op = "newReport" /\ state.report # NullObj

\* Some run delivers in this step a report event with the given id.
DeliversReport(id) ==
  \E r \in Runs :
    \E i \in (Len(observed[r]) + 1)..Len(observed'[r]) :
      observed'[r][i].type = "report" /\ Get(observed'[r][i].data, "id") = id

\* C15: the report id is null initially and right after resetReport() (in
\* newReport and at the start of a generation); it changes to a non-null
\* value only in a step that delivers a report event with that id, so it
\* is null for as long as no report event has been observed since the last
\* reset, whatever else (errors, closed channels) happened.
C15_IdLifecycle ==
  /\ currentReportId = Null
  /\ [][ /\ IsSessionResetStep => currentReportId' = Null
         /\ (currentReportId' # currentReportId /\ ~IsSessionResetStep) =>
              currentReportId' # Null /\ DeliversReport(currentReportId') ]_vars

\* The second run ended in an error without a report event, after the
\* first run had set the id and newReport had cleared it: the id is null.
C15_NullAfterFailedRun ==
  /\ HasReport(observed[1])
  /\ closedBy[2] = "catch"
  /\ observed[2] # <<>>
  /\ ~HasReport(observed[2])
  /\ currentReportId = Null

\* ------------------------------------------------------------------ C16
IsIdCall(l) == l.op \in {"askFollowUp", "exportPdf"}

\* C16: askFollowUp and exportPdf called while the report id is null throw
\* 'No report loaded', make no request and open no window, and the call
\* leaves the report id as it was.
C16_FailFast ==
  /\ [](IsIdCall(last) /\ last.id = Null =>
          /\ last.out.thrown = NoReportMessage
          /\ last.op = "askFollowUp" => last.out.request = NullObj
          /\ last.op = "exportPdf" => last.out.opened = <<>>)
  /\ [][IsIdCall(last') /\ last' # last => currentReportId' = currentReportId]_vars

\* askFollowUp was called after a report had set the id and resetReport()
\* had cleared it.
C16_FollowUpAfterReset ==
  /\ HasReport(observed[1])
  /\ last.op = "askFollowUp"
  /\ last.id = Null
  /\ last.out.thrown = NoReportMessage
  /\ currentReportId = Null

\* ------------------------------------------------------------------ C17
\* The parts of the application state a generation run owns.
RunState == <<state.progress, state.report, state.error, state.isLoading, currentReportId>>

\* C17 (as claimed): once a later generation has been started, an event
\* delivered by the stream of an earlier generation changes neither the
\* progress, the report, the error, the loading flag nor the report id.
C17_EarlierStreamIsolated ==
  [][ \A r \in Runs :
        (r < nRuns /\ Len(observed'[r]) > Len(observed[r])) => RunState' = RunState ]_vars

\* ------------------------------------------------------------------ C18
AllStepsComplete ==
  \A i \in 1..Len(state.progress.steps) : state.progress.steps[i].status = "complete"

\* C18: right after a report event has been handled every step is
\* complete, the percentage is 100, isComplete is true, the report of the
\* event is stored, isLoading is false and the session holds its id,
\* whatever was delivered before.
C18_ReportCompletesAll ==
  (last.op = "event" /\ last.event.type = "report") =>
    /\ AllStepsComplete
    /\ state.progress.progressPercent = 100
    /\ state.progress.isComplete
    /\ state.report = last.event.data
    /\ ~state.isLoading
    /\ currentReportId = Get(last.event.data, "id")

\* The report was handled after one progress event only: the steps after
\* the first had never been active.
C18_ReportAfterFirstStep ==
  /\ last.op = "event"
  /\ last.event.type = "report"
  /\ observed[1] = <<OptimizingEvent, last.event>>
  /\ AllStepsComplete

\* ------------------------------------------------------------------ C19
\* C19: setProgressError(msg) sets hasError and errorMessage = msg, turns
\* the active step (if any) into an error step, and leaves every other
\* step, currentStepId, progressPercent and isComplete as they were.
C19_ErrorFrame ==
  [][ last'.op = "setProgressError" =>
        /\ state'.progress.hasError
        /\ state'.progress.errorMessage = last'.message
        /\ Len(state'.progress.steps) = Len(state.progress.steps)
        /\ \A i \in 1..Len(state.progress.steps) :
             state'.progress.steps[i] =
               IF state.progress.steps[i].status = "active"
               THEN [state.progress.steps[i] EXCEPT !.status = "error"]
               ELSE state.progress.steps[i]
        /\ state'.progress.currentStepId = state.progress.currentStepId
        /\ state'.progress.progressPercent = state.progress.progressPercent
        /\ state'.progress.isComplete = state.progress.isComplete ]_vars

StatusesOf(steps) == {steps[i].status : i \in 1..Len(steps)}

\* setProgressError has just turned the active step into an error step,
\* between complete steps and pending steps.
C19_ActiveStepDemoted ==
  /\ last.op = "setProgressError"
  /\ last.message = "timeout"
  /\ StatusesOf(state.progress.steps) = {"complete", "error", "pending"}
  /\ state.progress.progressPercent = 50

\* ------------------------------------------------------------------ C20
\* C20: updateProgress with an event whose step is not one of the steps of
\* PROGRESS_STEPS_CONFIG (an unknown id, or "complete") leaves the
\* ResearchProgress as it was.
C20_UnknownStepNoOp ==
  [][ (last'.op = "updateProgress" /\ last'.event.step \notin StepIds) =>
        state'.progress = state.progress ]_vars

\* An event of step "complete" declaring 5 percent was applied while the
\* ranking step was active at 50 percent.
C20_CompleteStepIgnored ==
  /\ last.op = "updateProgress"
  /\ last.event.step = "complete"
  /\ last.event.progress = 5
  /\ state.progress.currentStepId = "ranking"
  /\ state.progress.progressPercent = 50
  /\ "active" \in StatusesOf(state.progress.steps)

\* ------------------------------------------------------------------ C21
\* C21: the steps of ResearchProgress are always those of
\* PROGRESS_STEPS_CONFIG: same number, same ids and labels at the same
\* positions.
C21_StepsFixed ==
  /\ Len(state.progress.steps) = NumSteps
  /\ \A i \in 1..NumSteps :
       /\ state.progress.steps[i].id = PROGRESS_STEPS_CONFIG[i].id
       /\ state.progress.steps[i].label = PROGRESS_STEPS_CONFIG[i].label

\* A progress event of the last step has been applied and then an error:
\* ten complete steps and one error step, still in the configured order.
C21_LastStepFailed ==
  /\ last.op = "setProgressError"
  /\ state.progress.currentStepId = PROGRESS_STEPS_CONFIG[NumSteps].id
  /\ state.progress.steps[NumSteps].status = "error"
  /\ \A i \in 1..(NumSteps - 1) : state.progress.steps[i].status = "complete"

\* ------------------------------------------------------------------ C22
IsTerminalProgress(p) == p.isComplete \/ p.hasError

\* Some run delivers an event in this step.
IsDeliveryStep == \E r \in Runs : Len(observed'[r]) > Len(observed[r])

\* C22 (as claimed): once isComplete or hasError is set, an event
\* delivered later leaves the step statuses, progressPercent, isComplete
\* and hasError as they were.
C22_TerminalIsFrozen ==
  [][ (IsTerminalProgress(state.progress) /\ IsDeliveryStep) =>
        /\ state'.progress.steps = state.progress.steps
        /\ state'.progress.progressPercent = state.progress.progressPercent
        /\ state'.progress.isComplete = state.progress.isComplete
        /\ state'.progress.hasError = state.progress.hasError ]_vars

\* ------------------------------------------------------------------ C23
FrameErrorEvent == [type |-> "error", data |-> [message |-> "boom"]]

SyntaxErrorEvent == [type |-> "error", data |-> [message |-> SyntaxErrorMessage]]

HasFrameError(obs) == \E i \in 1..Len(obs) : obs[i] = FrameErrorEvent

LastEvent(obs) == obs[Len(obs)]

DeliversFramesOnly ==
  /\ Len(observed'[1]) > Len(observed[1])
  /\ \A i \in (Len(observed[1]) + 1)..Len(observed'[1]) : IsFromFrame(observed'[1][i])

C24_RemainderDiscarded ==
  [][ (closedBy[1] = "open" /\ closedBy'[1] = "end") =>
        /\ observed'[1] = observed[1]
        /\ completed'[1] = 1
        /\ state' = state
        /\ currentReportId' = currentReportId ]_vars

\* The stream ended after a progress frame and a report frame without its
\* blank line: the report frame is still in the buffer, no report event
\* was observed and no id is held.
C24_UnterminatedReportLost ==
  /\ closedBy[1] = "end"
  /\ buffer[1] = FrameReportUnterminated
  /\ observed[1] = <<OptimizingEvent>>
  /\ currentReportId = Null

\* ------------------------------------------------------------------ C25
IsPrefix(p, q) == Len(p) <= Len(q) /\ SubSeq(q, 1, Len(p)) = p

\* The text of the second argument that follows the text of the first.
TextAfter(old, new) == SubSeq(new, Len(old) + 1, Len(new))

\* C25: events are only ever appended to what the caller has observed, and
\* the events a read delivers are, in order, those of the frames that end
\* in the text made of the remainder and the new chunk (all of them, or
\* those before a frame on which JSON.parse throws).
C25_ArrivalOrder ==
  [][ /\ IsPrefix(observed[1], observed'[1])
      /\ received'[1] # received[1] =>
           \E added \in {TextAfter(observed[1], observed'[1])} :
           \E text \in {buffer[1] \o decodeBytes(decoder[1] \o TextAfter(received[1],
                                                         received'[1]), TRUE).text} :
           \E expected \in {ValidEvents(text)} :
           \E got \in {FromFrames(added)} :
             /\ IsPrefix(got, expected)
             /\ ~HasSyntaxError(added) => got = expected ]_vars

\* A progress frame and a report frame, with a read that ended inside a
\* payload: the progress event was observed before the report event.
C25_ProgressBeforeReport ==
  /\ midPayload[1]
  /\ received[1] = FrameOptimizing \o FrameReport
  /\ Len(observed[1]) = 2
  /\ observed[1][1] = OptimizingEvent
  /\ observed[1][2].type = "report"

\* ------------------------------------------------------------------ C26
\* C26: the step of ReportPageComponent.generateReport, on every run,
\* leaves the progress equal to createInitialProgress(), the loading flag
\* set and the report id null, with the request of the new run issued.
C26_FreshProgressAtStart ==
  [][ nRuns' = nRuns + 1 =>
        /\ state'.progress = createInitialProgress
        /\ state'.isLoading
        /\ currentReportId' = Null
        /\ pc'[nRuns'] = "fetching" ]_vars

\* The second generation has just been started after a first one that
\* ended its progress on an error step.
C26_SecondRunStartsFresh ==
  /\ nRuns = 2
  /\ last.op = "generateReport"
  /\ observed[1] = <<OptimizingEvent, FrameErrorEvent>>
  /\ state.progress = createInitialProgress

\* ------------------------------------------------------------------ C27
RECURSIVE ApplyAll(_, _)
ApplyAll(s, events) ==
  IF events = <<>> THEN s ELSE ApplyAll(onEvent(s, Head(events)), Tail(events))

\* C27: a step in which a run delivers events applies exactly these
\* events, one after another, to the state the step started in; in the
\* same step no other run delivers an event and no generation is started.
C27_ChunkAppliedAtomically ==
  [][ \A r \in Runs :
        Len(observed'[r]) > Len(observed[r]) =>
          /\ state' = ApplyAll(state, TextAfter(observed[r], observed'[r]))
          /\ \A q \in Runs \ {r} : observed'[q] = observed[q]
          /\ nRuns' = nRuns ]_vars

\* One read of the first run has delivered a progress event and a report
\* event together while the second run was reading.
C27_TwoEventsInOneRead ==
  /\ last.op = "event"
  /\ last.n = 2
  /\ last.event.type = "report"
  /\ pc[2] = "reading"
  /\ Len(observed[1]) >= 3
  /\ observed[1][Len(observed[1]) - 1].type = "progress"

\* ------------------------------------------------------------------ C28
\* C28: right after updateProgress has applied an event of a step of the
\* list, currentStepId is the event's step, progressPercent is the event's
\* progress, and the detail of the matched step is the event's detail when
\* that is a non-empty string and undefined otherwise.
C28_EventCopied ==
  (last.op = "updateProgress" /\ last.event.step \in StepIds) =>
    \E k \in {ConfigIndex(last.event.step)} :
      /\ state.progress.currentStepId = last.event.step
      /\ state.progress.progressPercent = last.event.progress
      /\ state.progress.steps[k].detail =
           IF last.event.detail \in {Null, ""} THEN Undefined ELSE last.event.detail

\* An event of step optimizing without detail and declaring 5 percent was
\* applied after the ranking step had left a detail and 50 percent behind.
C28_LowerValueCopied ==
  /\ last.op = "updateProgress"
  /\ last.event.step = "optimizing"
  /\ last.event.detail = ""
  /\ last.event.progress = 5
  /\ state.progress.steps[ConfigIndex("ranking")].detail = "3 papers"
  /\ state.progress.steps[ConfigIndex("optimizing")].detail = Undefined
  /\ state.progress.progressPercent = 5

\* ------------------------------------------------------------------ C29
\* C29: a generation run makes one fetch call, when the page starts it,
\* and never another one, whatever fails afterwards.
C29_OneRequestPerRun ==
  /\ [](\A r \in Runs : requests[r] = IF pc[r] = "idle" THEN 0 ELSE 1)
  /\ [][\A r \in Runs :
         requests'[r] # requests[r] => nRuns' = nRuns + 1 /\ r = nRuns']_vars

\* A read of the first run failed after bytes had been received; the run
\* is closed with its single request, and no second run was started.
C29_NoRetryAfterFailedRead ==
  /\ closedBy[1] = "catch"
  /\ received[1] # <<>>
  /\ LastEvent(observed[1]) = NetworkErrorEvent
  /\ requests = [r \in Runs |-> IF r = 1 THEN 1 ELSE 0]

\* ------------------------------------------------------------------ C30
\* C30: the page is subscribed to the channel of a run from the step that
\* starts the run, so every step in which the run emits an event (the
\* first included) finds the subscriber in place.
C30_SubscribedBeforeFirstEvent ==
  /\ [](\A r \in Runs : subscribed[r] = (pc[r] # "idle"))
  /\ [][\A r \in Runs : Len(observed'[r]) > Len(observed[r]) => subscribed[r]]_vars

\* The response had no body: the only event of the run, emitted in the
\* first task of the transport, has reached the page.
C30_NoBodyErrorReachedPage ==
  /\ closedBy[1] = "noBody"
  /\ observed[1] = <<NoBodyEvent>>
  /\ state.error = NoBodyMessage
  /\ state.progress.hasError
  /\ ~state.isLoading

\* ---------------------------------------------------------------------------
\* C31: every generation run leaves the loading state: once the channel of the
\* latest run has closed (by the end of the stream, a failed read or a missing
\* body), isLoading is false.  The page subscribes with next and error handlers
\* only (report-page.component.ts 70-88), so the completion of the channel
\* itself changes nothing: a stream that ends without a report or an error event
\* leaves isLoading true.
C31_ClosedRunNotLoading ==
  (nRuns >= 1 /\ closedBy[nRuns] # "open") => ~state.isLoading

\* ---------------------------------------------------------------------------
\* C32: after newReport() the application state stays equal to the initial
\* state until the next generateReport call, whatever the stream of the previous
\* run still delivers.  Stated on the steps taken while newReport is the last
\* page action and no generation starts: they leave the state untouched.
InitialRunState == <<createInitialProgress, NullObj, Null, FALSE, Null>>

C32_StaysInitialAfterNewReport ==
  [][ (last.op = "newReport" /\ nRuns' = nRuns) =>
        /\ RunState = InitialRunState
        /\ RunState' = InitialRunState ]_vars

\* ---------------------------------------------------------------------------
\* C35: while a generation run is loading, state.error is null.  setLoading(true)
\* (state.service.ts 73-81) rewrites isLoading, loadingMessage and progress and
\* the page's generateReport (report-page.component.ts 64-68) makes no other
\* state call before subscribing, so the message of a failed run is still set
\* while the next run is loading.
C35_NoErrorWhileLoading ==
  state.isLoading => state.error = Null

\* ---------------------------------------------------------------------------
\* C33: with generateReport raised only by the search input (no report
\* displayed, not loading), whenever state.report is non-null the report id of
\* the session equals state.report.id, so askFollowUp and exportPdf called with
\* it do not throw 'No report loaded'.
C33_SessionIdFollowsReport ==
  state.report # NullObj =>
    /\ currentReportId = state.report.id
    /\ exportPdf(currentReportId).thrown = Null
    /\ \A question \in Questions : askFollowUp(currentReportId, question).thrown = Null

\* The report of the first run arrives after a second generation has started,
\* which had set the session id back to null.
C33_LateReportOfEarlierRun ==
  /\ nRuns = 2
  /\ observed[2] = <<>>
  /\ state.report # NullObj
  /\ last.op = "event" /\ last.event.type = "report"
  /\ currentReportId = "r1"

\* ---------------------------------------------------------------------------
\* C34: the page's askFollowUp always returns the follow-up loading flag to
\* false: once no call is under way any more (each was answered, failed over
\* HTTP, or ended by the throw of the service), isFollowUpLoading is false.
\* The page sets the flag before it calls the service
\* (report-page.component.ts 92-94) and clears it only in the two handlers of
\* the subscription, so a throw of ReportService.askFollowUp leaves it true.
C34_FlagClearedWhenFinished ==
  followUp.pending = <<>> => ~state.isFollowUpLoading

\* ---------------------------------------------------------------------------
\* C36: a frame named complete, or with any name other than progress, report
\* and error, is forwarded by the transport as an event of that name, and a read
\* that delivers only such events leaves the application state and the report
\* id of the session as they were.
CompleteEvent == [type |-> "complete", data |-> [status |-> "done"]]

HeartbeatEvent == [type |-> "heartbeat", data |-> [status |-> "done"]]

HandledTypes == {"progress", "report", "error"}

NewEvents(r) == (Len(observed[r]) + 1)..Len(observed'[r])

C36_UnhandledEventNoEffect ==
  [][ /\ ( /\ pc[1] = "reading" /\ buffer[1] = <<>> /\ decoder[1] = <<>>
           /\ wire[1] \in {FrameComplete, FrameHeartbeat}
           /\ received'[1] # received[1] )
         => observed'[1] = Append(observed[1],
                                  IF wire[1] = FrameComplete THEN CompleteEvent
                                  ELSE HeartbeatEvent)
      /\ \A r \in Runs :
           ( /\ NewEvents(r) # {}
             /\ \A i \in NewEvents(r) : observed'[r][i].type \notin HandledTypes )
           => /\ state' = state
              /\ currentReportId' = currentReportId ]_vars

\* A complete frame and then a frame of an unknown name are delivered while
\* the run is loading, after a progress event.
C36_CompleteAndUnknownWhileLoading ==
  /\ observed[1] = <<OptimizingEvent, CompleteEvent, HeartbeatEvent>>
  /\ last.op = "event" /\ last.event = HeartbeatEvent
  /\ state.isLoading
  /\ state.progress.currentStepId = "optimizing"

\* ---------------------------------------------------------------------------
\* C37: in PaperService.researchStream, after a failure of the connection (an
\* 'error' event without data) the consumer has observed exactly one error
\* event with the message 'Connection lost', the channel has completed and the
\* EventSource is closed.  Both the listener added for 'error' and the onerror
\* handler receive that event (tab-bar.component.ts 107-119); the listener,
\* registered first, finds no data, closes the source and completes the
\* Subject, and the next() of the handler reaches a stopped Subject.
ConnectionLostEvent == [type |-> "error", data |-> [message |-> ConnectionLostMessage]]

C37_ConnectionLostReported ==
  last.op = "paperTransportError" =>
    /\ Cardinality({i \in 1..Len(paper.observed) : paper.observed[i] = ConnectionLostEvent}) = 1
    /\ paper.completed = 1
    /\ paper.pc = "closed"
====
